---- MODULE Spec2Model ----
(***************************************************************************)
(* Model of src/app.py: the Streamlit page that asks an LLM for semantic   *)
(* triples and synonyms.  The page's state is the widgets' values, the two *)
(* session fields (last_df, synonyms) and the position of the script run   *)
(* that a button press started.  JSON values, pandas frames and Python     *)
(* strings are modelled as data, the functions of the script as operators. *)
(***************************************************************************)
EXTENDS Integers, Sequences, FiniteSets, TLC

VARIABLES
    brand,            \* st.text_input "Brand": a string, as its characters
    services,         \* the four st.text_area widgets
    audience,
    values,
    diffs,
    include_category, \* st.checkbox, read as a global by normalize_triples
    last_df,          \* st.session_state["last_df"]
    synonyms,         \* st.session_state["synonyms"]: the dict's items, in order
    pc,               \* where the script run stands: "idle" or blocked in gpt_json
    synIdx,           \* the entry of the synonyms dict literal being evaluated
    synAcc,           \* the entries of that literal evaluated so far
    pressed,          \* the button that started the current script run
    shown,            \* what the current run displayed: warning, result, fault
    calls,            \* requests sent to the LLM API by the current run
    fetched,          \* the four results of the latest literal fully evaluated
    raw,              \* the argument of the latest normalize_triples call
    df,               \* the value that call returned
    npc               \* normalize_triples under test: "ready" or "done"

vars == <<brand, services, audience, values, diffs, include_category, last_df,
          synonyms, pc, synIdx, synAcc, pressed, shown, calls, fetched, raw, df,
          npc>>

\* ------------------------------------------------------------------ bounds
MaxRows == 2        \* longest array in an LLM payload

\* ------------------------------------------------------- Python strings
\* A string is the sequence of its characters; " " is the whitespace one.
Whitespace == {" "}

RECURSIVE lstrip(_)
lstrip(s) ==
    IF s # <<>> /\ Head(s) \in Whitespace THEN lstrip(Tail(s)) ELSE s

RECURSIVE rstrip(_)
rstrip(s) ==
    IF s # <<>> /\ s[Len(s)] \in Whitespace
    THEN rstrip(SubSeq(s, 1, Len(s) - 1))
    ELSE s

\* str.strip()
strip(s) == rstrip(lstrip(s))

\* ---------------------------------------------------------- JSON values
\* What json.loads returns: null, a string, a list, or a dict whose keys
\* keep the order of the document.  Every value carries the same fields.
Null       == [t |-> "null", s |-> <<>>, keys |-> <<>>, items |-> <<>>]
Str(x)     == [t |-> "str",  s |-> x,    keys |-> <<>>, items |-> <<>>]
List(xs)   == [t |-> "list", s |-> <<>>, keys |-> <<>>, items |-> xs]
Dict(k, v) == [t |-> "dict", s |-> <<>>, keys |-> k,    items |-> v]
\* numpy's NaN, the cell pandas leaves where a record has no such key
NaN        == [t |-> "nan",  s |-> <<>>, keys |-> <<>>, items |-> <<>>]

IsList(v) == v.t = "list"
IsDict(v) == v.t = "dict"
IsStr(v)  == v.t = "str"

SeqToSet(q) == {q[i] : i \in 1..Len(q)}
HasKey(d, k) == k \in SeqToSet(d.keys)
IndexOf(q, x) == CHOOSE i \in 1..Len(q) : q[i] = x
\* d[k]
Item(d, k) == d.items[IndexOf(d.keys, k)]
\* d.get(k): None when the key is absent
Get(d, k) == IF HasKey(d, k) THEN Item(d, k) ELSE Null

\* str.isdigit() on a dict key: the keys of the payloads that are digits only
NumericKeys == {"0", "1", "2", "3"}
isdigit(k) == k \in NumericKeys

\* ------------------------------------------------------- pandas frames
\* A frame is its column labels, in order, and its rows; row i holds one
\* cell per column.  Column 0 is the integer label pandas gives the single
\* column of a frame built from scalars.
IntLabel0 == "0:int"
EmptyFrame == [columns |-> <<>>, rows |-> <<>>]

RECURSIVE AppendNew(_, _)
AppendNew(cols, ks) ==
    IF ks = <<>> THEN cols
    ELSE AppendNew(IF Head(ks) \in SeqToSet(cols) THEN cols
                   ELSE Append(cols, Head(ks)), Tail(ks))

\* the keys of the records in order of first appearance
RECURSIVE UnionKeys(_, _)
UnionKeys(cols, data) ==
    IF data = <<>> THEN cols
    ELSE UnionKeys(AppendNew(cols, Head(data).keys), Tail(data))

\* pd.DataFrame(data) for a list: empty, a list of dicts, a list of scalars
DataFrame(data) ==
    IF data = <<>> THEN EmptyFrame
    ELSE IF IsDict(data[1]) THEN
        LET cols == UnionKeys(<<>>, data)
        IN  [columns |-> cols,
             rows |-> [i \in 1..Len(data) |->
                         [j \in 1..Len(cols) |->
                            IF HasKey(data[i], cols[j])
                            THEN Item(data[i], cols[j]) ELSE NaN]]]
    ELSE [columns |-> <<IntLabel0>>,
          rows |-> [i \in 1..Len(data) |-> <<data[i]>>]]

\* col in df
HasColumn(f, col) == col \in SeqToSet(f.columns)

\* df[col] = value, for a column the frame does not have
SetColumn(f, col, value) ==
    [columns |-> Append(f.columns, col),
     rows |-> [i \in 1..Len(f.rows) |-> Append(f.rows[i], value)]]

RemoveAt(q, n) == SubSeq(q, 1, n - 1) \o SubSeq(q, n + 1, Len(q))

\* df.drop(columns=col)
DropColumn(f, col) ==
    LET n == IndexOf(f.columns, col)
    IN  [columns |-> RemoveAt(f.columns, n),
         rows |-> [i \in 1..Len(f.rows) |-> RemoveAt(f.rows[i], n)]]

\* ---------------------------------------------------- normalize_triples
Columns == <<"subject", "predicate", "object", "category">>

\* the first list among the dict's values, [] when it has none
FirstList(d) ==
    LET hits == {i \in 1..Len(d.items) : IsList(d.items[i])}
    IN  IF hits = {} THEN <<>>
        ELSE d.items[CHOOSE i \in hits : \A j \in hits : i <= j].items

\* Variant: a numbered dict is read in the order of its indexes, not in the
\* order its keys are stored.
SelectTriplesByIndex(r) ==
    IF IsList(r) THEN r.items
    ELSE IF IsDict(r) THEN
        IF IsList(Get(r, "triples")) THEN Item(r, "triples").items
        ELSE IF \A i \in 1..Len(r.keys) : isdigit(r.keys[i]) THEN
            LET n == Len(r.keys)
                rank(i) == CHOOSE m \in 1..4 :
                              r.keys[i] = <<"0", "1", "2", "3">>[m]
                p == CHOOSE q \in [1..n -> 1..n] :
                        \A a, b \in 1..n : a < b => rank(q[a]) < rank(q[b])
            IN  [a \in 1..n |-> r.items[p[a]]]
        ELSE FirstList(r)
    ELSE <<>>

\* lines 50-60: the list of triples the payload is taken to hold
SelectTriples(r) ==
    IF IsList(r) THEN r.items
    ELSE IF IsDict(r) THEN
        IF IsList(Get(r, "triples")) THEN Item(r, "triples").items
        ELSE IF \A i \in 1..Len(r.keys) : isdigit(r.keys[i]) THEN r.items
        ELSE FirstList(r)
    ELSE <<>>

\* lines 63-65: add each canonical column the frame lacks, filled with ""
RECURSIVE FillColumns(_, _)
FillColumns(f, cols) ==
    IF cols = <<>> THEN f
    ELSE FillColumns(IF HasColumn(f, Head(cols)) THEN f
                     ELSE SetColumn(f, Head(cols), Str(<<>>)), Tail(cols))

\* Variant: the column is dropped only from a frame that has rows.
DropCategoryIfRows(f) ==
    IF ~include_category /\ HasColumn(f, "category") /\ f.rows # <<>>
    THEN DropColumn(f, "category") ELSE f

\* lines 66-67: the category column goes when the checkbox is off
DropCategory(f) ==
    IF ~include_category /\ HasColumn(f, "category")
    THEN DropColumn(f, "category") ELSE f

normalize_triples(r) ==
    DropCategory(FillColumns(DataFrame(SelectTriples(r)), Columns))

\* ------------------------------------------------------------ payloads
\* The replies the LLM is taken to give.  Arrays hold only records or only
\* strings: pandas' handling of an array that mixes them is not modelled.
SeqsUpTo(S, n) == UNION {[1..k -> S] : k \in 0..n}

Vals == {<<"A">>, <<"B">>}
KeySeqs == {<<>>, <<"subject">>, <<"subject", "predicate">>,
            <<"subject", "predicate", "object", "category">>,
            <<"object", "subject">>, <<"subject", "note">>, <<"category">>}
Rec(ks, v) == Dict(ks, [i \in 1..Len(ks) |-> Str(v)])
Records == {Rec(ks, v) : ks \in KeySeqs, v \in Vals}
RecLists == SeqsUpTo(Records, MaxRows)
StrLists == SeqsUpTo({Str(v) : v \in Vals}, MaxRows)
ShortLists == SeqsUpTo(Records, 1)
Indexes == <<"0", "1", "2", "3">>

Payloads ==
    {Null, Str(<<"A">>)}
    \cup {List(l) : l \in RecLists \cup StrLists}
    \cup {Dict(<<"triples">>, <<List(l)>>) : l \in RecLists}
    \cup {Dict(<<"triples">>, <<Str(<<"A">>)>>)}
    \cup {Dict(<<"data", "triples">>, <<List(a), List(b)>>) :
             a \in ShortLists, b \in ShortLists}
    \cup {Dict(SubSeq(Indexes, 1, Len(l)), l) : l \in RecLists \cup StrLists}
    \cup {Dict(<<"1", "0">>, l) : l \in {x \in RecLists : Len(x) = 2}}
    \cup {Dict(<<"data">>, <<List(l)>>) : l \in RecLists}
    \cup {Dict(<<"brand", "data">>, <<Str(<<"A">>), List(l)>>) : l \in ShortLists}
    \cup {Dict(<<"a", "b">>, <<List(a), List(b)>>) :
             a \in ShortLists, b \in ShortLists}
    \cup {Dict(<<"0", "x">>, <<a, b>>) : a \in Records, b \in Records}
    \cup Records

\* --------------------------------------- normalize_triples on its own
NormInit ==
    /\ brand = <<>> /\ services = <<>> /\ audience = <<>>
    /\ values = <<>> /\ diffs = <<>>
    /\ include_category \in BOOLEAN
    /\ last_df = EmptyFrame /\ synonyms = <<>>
    /\ pc = "idle" /\ synIdx = 0 /\ synAcc = <<>>
    /\ pressed = "none" /\ shown = "none" /\ calls = 0 /\ fetched = <<>>
    /\ raw \in Payloads /\ df = EmptyFrame /\ npc = "ready"

NormCall ==
    /\ npc = "ready"
    /\ df' = normalize_triples(raw)
    /\ npc' = "done"
    /\ UNCHANGED <<brand, services, audience, values, diffs, include_category,
                   last_df, synonyms, pc, synIdx, synAcc, pressed, shown,
                   calls, fetched, raw>>

NormNext == NormCall
NormSpec == NormInit /\ [][NormNext]_vars

\* ------------------------------------------------------- fetch_synonyms
\* Variant: not text, the strip forgotten.
IsBlankNoStrip(text) == text = <<>>

\* line 73: not text.strip()
IsBlank(text) == strip(text) = <<>>

\* [w.strip() for w in ws if isinstance(w, str)]
RECURSIVE StrippedStrings(_)
StrippedStrings(ws) ==
    IF ws = <<>> THEN <<>>
    ELSE IF IsStr(Head(ws))
         THEN <<strip(Head(ws).s)>> \o StrippedStrings(Tail(ws))
         ELSE StrippedStrings(Tail(ws))

AllDigitKeys(d) == \A i \in 1..Len(d.keys) : isdigit(d.keys[i])
AllStrings(ws) == \A i \in 1..Len(ws) : IsStr(ws[i])

\* lines 83-107: the synonyms a reply is taken to hold
ParseSynonyms(r) ==
    IF IsDict(r) /\ IsList(Get(r, "synonyms"))
    THEN StrippedStrings(Item(r, "synonyms").items)
    ELSE IF IsDict(r) /\ IsDict(Get(r, "synonyms"))
            /\ AllDigitKeys(Item(r, "synonyms"))
    THEN StrippedStrings(Item(r, "synonyms").items)
    ELSE IF IsDict(r) /\ AllDigitKeys(r)
    THEN StrippedStrings(r.items)
    ELSE IF IsDict(r)
            /\ \E i \in 1..Len(r.items) :
                  IsList(r.items[i]) /\ AllStrings(r.items[i].items)
    THEN LET hits == {i \in 1..Len(r.items) :
                        IsList(r.items[i]) /\ AllStrings(r.items[i].items)}
         IN  StrippedStrings(
                 r.items[CHOOSE i \in hits : \A j \in hits : i <= j].items)
    ELSE IF IsList(r) /\ AllStrings(r.items)
    THEN StrippedStrings(r.items)
    ELSE <<>>

\* ------------------------------------------------------------ the page
Brands == {<<>>, <<"A">>}
Texts  == {<<>>, <<" ">>, <<"a">>}

\* the replies to the preview and generate prompts
TripleReplies ==
    {List(<<Rec(<<"subject", "predicate", "object", "category">>, <<"A">>)>>),
     List(<<Rec(<<"subject">>, <<"A">>), Rec(<<"subject", "category">>, <<"B">>)>>),
     Rec(<<"subject", "predicate">>, <<"A">>)}

\* the replies to the synonym prompts
SynonymReplies ==
    {Dict(<<"synonyms">>, <<List(<<Str(<<" ", "x">>)>>)>>),
     Dict(<<"words">>, <<Str(<<"x">>)>>)}

\* lines 183-188: the keys of the synonyms dict and the widget behind each
Labels == <<"Services / Products", "Audience", "Value Propositions",
            "Differentiators">>
FieldText(i) ==
    CASE i = 1 -> services
      [] i = 2 -> audience
      [] i = 3 -> values
      [] OTHER -> diffs

\* Variant: brand is None, which a text input never is.
BrandIsNone == FALSE

\* line 131, line 148: not brand
BrandMissing == brand = <<>>

\* the next entry from i on whose fetch_synonyms sends a request; 5 if none
NextRequest(i) ==
    IF \E j \in i..4 : ~IsBlank(FieldText(j))
    THEN CHOOSE j \in i..4 :
            /\ ~IsBlank(FieldText(j))
            /\ \A k \in i..(j - 1) : IsBlank(FieldText(k))
    ELSE 5

\* the entries from i up to j - 1 return [] at line 74
Skipped(i, j) == [k \in 1..(j - i) |-> <<>>]

\* the dict the literal of lines 183-188 builds from the four results
SynonymDict(results) == [i \in 1..4 |-> <<Labels[i], results[i]>>]

\* Variant: the new rows are appended to the stored table.
AppendLastDf(old, new) ==
    [columns |-> new.columns, rows |-> old.rows \o new.rows]

\* line 142, line 159: st.session_state["last_df"] = df
StoreLastDf(old, new) == new
\* line 183: st.session_state["synonyms"] = {...}
StoreSynonyms(old, new) == new

Init ==
    /\ brand = <<>> /\ services = <<>> /\ audience = <<>>
    /\ values = <<>> /\ diffs = <<>>
    /\ include_category = TRUE
    /\ last_df = EmptyFrame /\ synonyms = <<>>
    /\ pc = "idle" /\ synIdx = 0 /\ synAcc = <<>>
    /\ pressed = "none" /\ shown = "none" /\ calls = 0 /\ fetched = <<>>
    /\ raw = Null /\ df = EmptyFrame /\ npc = "ready"

\* A script run no button started: the widget's new value, nothing shown.
Rerun ==
    /\ pc = "idle"
    /\ pressed' = "none" /\ shown' = "none" /\ calls' = 0
    /\ UNCHANGED <<last_df, synonyms, pc, synIdx, synAcc, fetched, raw, df, npc>>

SetBrand ==
    /\ Rerun
    /\ \E b \in Brands \ {brand} : brand' = b
    /\ UNCHANGED <<services, audience, values, diffs, include_category>>

SetServices ==
    /\ Rerun
    /\ \E x \in Texts \ {services} : services' = x
    /\ UNCHANGED <<brand, audience, values, diffs, include_category>>

SetAudience ==
    /\ Rerun
    /\ \E x \in Texts \ {audience} : audience' = x
    /\ UNCHANGED <<brand, services, values, diffs, include_category>>

SetValues ==
    /\ Rerun
    /\ \E x \in Texts \ {values} : values' = x
    /\ UNCHANGED <<brand, services, audience, diffs, include_category>>

SetDiffs ==
    /\ Rerun
    /\ \E x \in Texts \ {diffs} : diffs' = x
    /\ UNCHANGED <<brand, services, audience, values, include_category>>

ToggleCategory ==
    /\ Rerun
    /\ include_category' = ~include_category
    /\ UNCHANGED <<brand, services, audience, values, diffs>>

Widgets == <<brand, services, audience, values, diffs, include_category>>

\* lines 130-140 and 147-157: warn, or build the prompt and call gpt_json
PressTriples(button) ==
    /\ pc = "idle"
    /\ pressed' = button
    /\ IF BrandMissing
       THEN /\ shown' = "warning"
            /\ calls' = 0
            /\ pc' = "idle"
       ELSE /\ shown' = "none"
            /\ calls' = 1
            /\ pc' = button
    /\ UNCHANGED <<Widgets, last_df, synonyms, synIdx, synAcc, fetched, raw, df,
                   npc>>

PressPreview == PressTriples("preview")
PressGenerate == PressTriples("generate")

\* lines 141-144 and 158-161: gpt_json returned the reply
TriplesReturn ==
    /\ pc \in {"preview", "generate"}
    /\ \E reply \in TripleReplies :
          /\ raw' = reply
          /\ df' = normalize_triples(reply)
          /\ last_df' = StoreLastDf(last_df, normalize_triples(reply))
    /\ npc' = "done"
    /\ shown' = pc
    /\ pc' = "idle"
    /\ UNCHANGED <<Widgets, synonyms, synIdx, synAcc, pressed, calls, fetched>>

\* Variant: each result is written to the session as soon as it is known,
\* while the next request is still out.
EvalSynonymsEagerly(i, acc, sent) ==
    LET j == NextRequest(i)
        results == acc \o Skipped(i, j)
    IN  IF j > 4
        THEN /\ synonyms' = StoreSynonyms(synonyms, SynonymDict(results))
             /\ pc' = "idle"
             /\ synIdx' = 0
             /\ synAcc' = <<>>
             /\ shown' = "synonyms"
             /\ calls' = sent
             /\ fetched' = results
        ELSE /\ pc' = "synonyms"
             /\ synIdx' = j
             /\ synAcc' = results
             /\ shown' = "none"
             /\ calls' = sent + 1
             /\ synonyms' = SynonymDict(results \o Skipped(j, 5))
             /\ UNCHANGED fetched

\* The dict literal of lines 183-188 from entry i on, the results so far
\* being acc: entries with blank text return [] at once, the first other
\* one sends its request and blocks; with none left the dict is stored.
EvalSynonyms(i, acc, sent) ==
    LET j == NextRequest(i)
        results == acc \o Skipped(i, j)
    IN  IF j > 4
        THEN /\ synonyms' = StoreSynonyms(synonyms, SynonymDict(results))
             /\ pc' = "idle"
             /\ synIdx' = 0
             /\ synAcc' = <<>>
             /\ shown' = "synonyms"
             /\ calls' = sent
             /\ fetched' = results
        ELSE /\ pc' = "synonyms"
             /\ synIdx' = j
             /\ synAcc' = results
             /\ shown' = "none"
             /\ calls' = sent + 1
             /\ UNCHANGED <<synonyms, fetched>>

\* line 182: the button starts the evaluation of the literal
PressSynonyms ==
    /\ pc = "idle"
    /\ pressed' = "synonyms"
    /\ EvalSynonyms(1, <<>>, 0)
    /\ UNCHANGED <<Widgets, last_df, raw, df, npc>>

\* lines 81-107: gpt_json returned the reply to entry synIdx
SynonymsReturn ==
    /\ pc = "synonyms"
    /\ \E reply \in SynonymReplies :
          EvalSynonyms(synIdx + 1, Append(synAcc, ParseSynonyms(reply)), calls)
    /\ UNCHANGED <<Widgets, last_df, pressed, raw, df, npc>>

\* Variant: a fault is caught and the results so far are stored.
GptRaiseKeepsPartial ==
    /\ pc \in {"preview", "generate", "synonyms"}
    /\ pc' = "idle"
    /\ shown' = "fault"
    /\ synIdx' = 0
    /\ synAcc' = <<>>
    /\ synonyms' = IF pc = "synonyms"
                   THEN SynonymDict(synAcc \o Skipped(Len(synAcc) + 1, 5))
                   ELSE synonyms
    /\ UNCHANGED <<Widgets, last_df, pressed, calls, fetched, raw, df, npc>>

\* lines 36-42: the request or json.loads raises; the run ends there
GptRaise ==
    /\ pc \in {"preview", "generate", "synonyms"}
    /\ pc' = "idle"
    /\ shown' = "fault"
    /\ synIdx' = 0
    /\ synAcc' = <<>>
    /\ UNCHANGED <<Widgets, last_df, synonyms, pressed, calls, fetched, raw, df,
                   npc>>

Next ==
    \/ SetBrand \/ SetServices \/ SetAudience \/ SetValues \/ SetDiffs
    \/ ToggleCategory
    \/ PressPreview \/ PressGenerate \/ TriplesReturn
    \/ PressSynonyms \/ SynonymsReturn
    \/ GptRaise

Spec == Init /\ [][Next]_vars

\* ============================================================== claims
\* the cell of row i under the column labelled col
Cell(f, i, col) == f.rows[i][IndexOf(f.columns, col)]

\* the columns the table is said to have
Wanted ==
    IF include_category THEN <<"subject", "predicate", "object", "category">>
    ELSE <<"subject", "predicate", "object">>

\* row i of the frame holds the record's value under each wanted column and
\* the empty string where the record has none
RowOfRecord(f, i, rec) ==
    \A n \in 1..Len(Wanted) :
        /\ HasColumn(f, Wanted[n])
        /\ Cell(f, i, Wanted[n]) =
              IF HasKey(rec, Wanted[n]) THEN Item(rec, Wanted[n])
              ELSE Str(<<>>)

NumberedKey(k) == k \in {"0", "1", "2", "3"}
ListEntries(d) == {i \in 1..Len(d.items) : d.items[i].t = "list"}

\* C1 (as claimed): an array of mappings gives one row per element, in
\* order, every canonical field present, a field the element lacks being
\* the empty string even when other elements carry it.
C1_RowsFilledWithDefaults ==
    (npc = "done" /\ raw.t = "list"
        /\ \A i \in 1..Len(raw.items) : raw.items[i].t = "dict")
    => /\ Len(df.rows) = Len(raw.items)
       /\ \A i \in 1..Len(raw.items) : RowOfRecord(df, i, raw.items[i])

\* C2 (as claimed): a mapping with no "triples" list and a key that is not
\* numeric gives the rows of its list-valued entry when it has exactly one,
\* and otherwise exactly one row, built from the mapping's own fields.
C2_OneListOrSingleTriple ==
    (npc = "done" /\ raw.t = "dict"
        /\ ~(HasKey(raw, "triples") /\ Item(raw, "triples").t = "list")
        /\ \E i \in 1..Len(raw.keys) : ~NumberedKey(raw.keys[i]))
    => IF Cardinality(ListEntries(raw)) = 1
       THEN LET l == raw.items[CHOOSE i \in ListEntries(raw) : TRUE].items
            IN  Len(df.rows) = Len(l)
       ELSE /\ Len(df.rows) = 1
            /\ RowOfRecord(df, 1, raw)

\* C3 (as claimed): the table has exactly the columns subject, predicate,
\* object, category (category left out when disabled), in that order,
\* whatever the key order or extra keys of the records.
C3_FixedColumns == npc = "done" => df.columns = Wanted

\* C4: a mapping whose keys are all numeric strings gives one row per entry,
\* in the stored order of the keys, row i holding the fields of the value
\* stored i-th (a scalar value as the single cell of column 0).
C4_NumberedDictKeepsStoredOrder ==
    (npc = "done" /\ raw.t = "dict"
        /\ \A i \in 1..Len(raw.keys) : NumberedKey(raw.keys[i]))
    => /\ Len(df.rows) = Len(raw.keys)
       /\ \A i \in 1..Len(raw.keys) :
             LET v == raw.items[i]
             IN  IF v.t = "dict"
                 THEN /\ \A n \in 1..Len(v.keys) :
                            \/ (v.keys[n] = "category" /\ ~include_category)
                            \/ /\ HasColumn(df, v.keys[n])
                               /\ Cell(df, i, v.keys[n]) = v.items[n]
                      /\ \A n \in 1..Len(df.columns) :
                            ~HasKey(v, df.columns[n])
                            => df.rows[i][n] \in {NaN, Str(<<>>)}
                 ELSE /\ HasColumn(df, IntLabel0)
                      /\ Cell(df, i, IntLabel0) = v

C4_Witness ==
    /\ npc = "done"
    /\ raw.t = "dict" /\ raw.keys = <<"1", "0">>
    /\ raw.items[1] # raw.items[2]
    /\ raw.items[1].keys = <<"subject">>
    /\ Len(df.rows) = 2
    /\ Cell(df, 1, "subject") # Cell(df, 2, "subject")

\* C5: with category inclusion disabled the output has no category column,
\* whatever the shape of the input, also when its records carry a category
\* and when it yields no rows.
C5_NoCategoryWhenDisabled ==
    (npc = "done" /\ ~include_category)
    => \A n \in 1..Len(df.columns) : df.columns[n] # "category"

C5_Witness ==
    /\ npc = "done" /\ ~include_category
    /\ raw.t = "list" /\ Len(raw.items) = 2
    /\ raw.items[1].t = "dict" /\ HasKey(raw.items[1], "category")
    /\ Len(df.rows) = 2

\* a text of whitespace only, the empty text included
OnlyWhitespace(text) == \A i \in 1..Len(text) : text[i] = " "
\* the attribute fields among the first n that hold more than whitespace
Filled(n) == {k \in 1..n : ~OnlyWhitespace(FieldText(k))}

\* C6: with the brand empty, preview and generate each show the warning and
\* send nothing; a preview or generate request is only ever out while the
\* brand is not empty.
C6_NoBrandNoCall ==
    /\ pc \in {"preview", "generate"} => brand # <<>>
    /\ (pressed \in {"preview", "generate"} /\ brand = <<>>)
       => (shown = "warning" /\ calls = 0 /\ pc = "idle")

C6_Witness ==
    /\ pressed = "generate" /\ brand = <<>>
    /\ shown = "warning" /\ calls = 0
    /\ services = <<"a">>

\* C7: fetch_synonyms on an empty or whitespace-only text returns the empty
\* list and sends no request: a request is out only for a field that holds
\* more than whitespace, the run has sent at most one per such field, and
\* every blank field's entry, pending or stored, is the empty list.
C7_BlankTextNoRequest ==
    /\ pc = "synonyms" =>
          /\ ~OnlyWhitespace(FieldText(synIdx))
          /\ \A k \in 1..Len(synAcc) :
                OnlyWhitespace(FieldText(k)) => synAcc[k] = <<>>
    /\ pressed = "synonyms" => calls <= Cardinality(Filled(4))
    /\ (pressed = "synonyms" /\ shown = "synonyms") =>
          \A k \in 1..4 :
             OnlyWhitespace(FieldText(k)) => synonyms[k] = <<Labels[k], <<>>>>

C7_Witness ==
    /\ pressed = "synonyms" /\ shown = "synonyms"
    /\ services = <<" ">> /\ audience = <<"a">>
    /\ values = <<>> /\ diffs = <<"a">>
    /\ synonyms[1][2] = <<>> /\ synonyms[2][2] # <<>>
    /\ calls = 2

C9_LastWriteWins ==
    /\ last_df = IF npc = "done" THEN df ELSE EmptyFrame
    /\ npc = "done" =>
          Len(last_df.rows) = Len(SelectTriples(raw))
    /\ synonyms = IF fetched = <<>> THEN <<>>
                  ELSE [i \in 1..4 |-> <<Labels[i], fetched[i]>>]

C9_Witness ==
    /\ npc = "done" /\ raw.t = "dict" /\ last_df.rows = <<>>
    /\ last_df.columns # <<>>
    /\ fetched # <<>> /\ fetched[1] = <<>> /\ fetched[2] = <<<<"x">>>>
    /\ shown = "synonyms"

\* C10: a step that ends in the warning or in a fault leaves the stored
\* table and the stored synonym map as they were; no step of a preview or
\* generate run changes the synonym map and no step of a fetch-synonyms run
\* changes the stored table.
C10_FailedActionChangesNothing ==
    [][ /\ shown' \in {"warning", "fault"} =>
              (last_df' = last_df /\ synonyms' = synonyms)
        /\ pressed' \in {"preview", "generate"} => synonyms' = synonyms
        /\ pressed' = "synonyms" => last_df' = last_df
      ]_vars

C10_Witness ==
    /\ shown = "fault" /\ pressed = "synonyms" /\ calls = 2
    /\ synonyms # <<>> /\ synonyms[1][2] = <<<<"x">>>>
    /\ services = <<>>
    /\ last_df.rows # <<>>

====
